---------------------------- MODULE Spec2Model ----------------------------
(***************************************************************************)
(* CulinaryChronicler.ipynb as a state machine.  The notebook's functions  *)
(* are the operations; the notebook's globals, the files on disk, the      *)
(* persistent Chroma database and the agent's chat memory are the state.   *)
(* Calls into chromadb and llama_index are modelled by the contract of     *)
(* the call that the notebook makes (named in the comment of each          *)
(* definition).                                                            *)
(***************************************************************************)
EXTENDS Naturals, Sequences, FiniteSets

VARIABLES
    pickle_file,             \* os.path.exists(DICTIONARY_PICKLE_PATH)
    pdf_file,                \* os.path.exists(DICTIONARY_PATH)
    cookbook_file,           \* os.path.exists(COOKBOOK_PATH)
    cookbook_docs,           \* notebook global; <<>> while undefined
    dictionary_docs,         \* notebook global; <<>> while undefined
    load_error,              \* what the last load_dictionary_data call raised
    chroma,                  \* the persistent database: name -> collection
    next_id,                 \* number of node ids handed out so far
    storage_context,         \* notebook global: the collection it wraps
    cookbook_index,          \* notebook global: the collection it reads
    dictionary_index,        \* notebook global: the collection it reads
    cookbook_query_engine,   \* notebook global: the collection it reads
    dictionary_query_engine, \* notebook global: the collection it reads
    query_engine_tools,      \* notebook global: the list of tools
    agent_tools,             \* the tools the agent was created with
    agent,                   \* TRUE once create_agent has run
    memory,                  \* the agent's chat memory (AgentRunner.memory)
    state,                   \* where the current query pass stands
    new_memory,              \* the messages of the pass under way
    n_function_calls,        \* tool executions of the pass under way
    chosen,                  \* tool name in the model's last response
    last_tool,               \* tool just executed, until the next step reads its output
    last_result,             \* chunks that execution retrieved
    last_error,              \* TRUE when the last execution of the pass raised
    response,                \* what the last query_agent call gave its caller
    chats                    \* query_agent calls made so far

vars == <<pickle_file, pdf_file, cookbook_file, cookbook_docs, dictionary_docs, load_error,
          chroma, next_id, storage_context, cookbook_index, dictionary_index,
          cookbook_query_engine, dictionary_query_engine, query_engine_tools,
          agent_tools, agent, memory, state, new_memory, n_function_calls,
          chosen, last_tool, last_result, last_error, response, chats>>

dataVars == <<pickle_file, pdf_file, cookbook_file, cookbook_docs, dictionary_docs,
              load_error>>
storeVars == <<chroma, next_id, storage_context, cookbook_index, dictionary_index>>
engineVars == <<cookbook_query_engine, dictionary_query_engine>>
agentVars == <<query_engine_tools, agent_tools, agent, memory>>
passVars == <<state, new_memory, n_function_calls, chosen, last_tool,
              last_result, last_error, response, chats>>

-----------------------------------------------------------------------------
(* Bounds of the model *)

\* node entries the database may hold before ingestion stops
MaxEntries == 2

\* query_agent calls explored on one kernel
MaxChats == 2

-----------------------------------------------------------------------------
(* Program constants *)

\* create_query_engine(index, similarity_top_k=3)
similarity_top_k == 3

\* FunctionCallingAgentWorker.from_tools is called without max_function_calls,
\* which leaves the worker's default of 5 tool executions per chat
max_function_calls == 5

\* create_vector_store(CHROMA_DB_PATH, "dictionary_food")
CollectionNames == {"dictionary_food"}

None == "none"

\* the chunks of the two source texts (one node per document here)
CookbookChunks == <<"marrow dumpling soup">>
DictionaryChunks == <<"aloo">>

\* the example queries of the notebook
Queries == {"What is aloo?", "How to prepare Marrow Dumpling Soup?"}

\* similarity of the embedding of a query to the embedding of a chunk
\* (HuggingFaceEmbedding + Chroma's distance), as a rank: higher is closer
Similarity(q, text) ==
    IF (q = "What is aloo?" /\ text = "aloo")
       \/ (q = "How to prepare Marrow Dumpling Soup?" /\ text = "marrow dumpling soup")
    THEN 2 ELSE 1

-----------------------------------------------------------------------------
(* Cell 3: load_dictionary_data, load_cookbook_data *)

\* the outcome of load_dictionary_data(pickle_path, pdf_path, use_pickle, key):
\* what it raises, what it returns, and whether it wrote the pickle.
\* LlamaParse is used on line 123 but imported nowhere in the notebook, so
\* the parsing branch ends in NameError once its two checks have passed.
\* a cache-aside loader, for comparison: a miss of the pickle falls back to
\* parsing the source document (with a parser that is there) and saves the
\* result
load_dictionary_data_fallback(use_pickle, has_key) ==
    IF use_pickle /\ pickle_file
    THEN [error |-> None, docs |-> DictionaryChunks, parsed |-> FALSE]
    ELSE IF ~has_key
         THEN [error |-> "ValueError", docs |-> <<>>, parsed |-> FALSE]
         ELSE IF ~pdf_file
              THEN [error |-> "FileNotFoundError", docs |-> <<>>, parsed |-> FALSE]
              ELSE [error |-> None, docs |-> DictionaryChunks, parsed |-> TRUE]

load_dictionary_data(use_pickle, has_key) ==
    IF use_pickle
    THEN IF ~pickle_file
         THEN [error |-> "FileNotFoundError", docs |-> <<>>, parsed |-> FALSE]
         ELSE [error |-> None, docs |-> DictionaryChunks, parsed |-> FALSE]
    ELSE IF ~has_key
         THEN [error |-> "ValueError", docs |-> <<>>, parsed |-> FALSE]
         ELSE IF ~pdf_file
              THEN [error |-> "FileNotFoundError", docs |-> <<>>, parsed |-> FALSE]
              ELSE [error |-> "NameError", docs |-> <<>>, parsed |-> FALSE]

\* dictionary_docs = load_dictionary_data(...): the global is assigned only
\* when the call returns
LoadDictionary(use_pickle, has_key) ==
    /\ state = "Idle"
    /\ LET r == load_dictionary_data(use_pickle, has_key) IN
         /\ load_error' = r.error
         /\ dictionary_docs' = IF r.error = None THEN r.docs ELSE dictionary_docs
         /\ pickle_file' = (pickle_file \/ r.parsed)
    /\ UNCHANGED <<pdf_file, cookbook_file, cookbook_docs>>
    /\ UNCHANGED <<storeVars, engineVars, agentVars, passVars>>

\* cookbook_docs = load_cookbook_data(COOKBOOK_PATH): SimpleDirectoryReader
\* reads the file, and raises when there is none (the global is left alone)
LoadCookbook ==
    /\ state = "Idle"
    /\ cookbook_docs' = IF cookbook_file THEN CookbookChunks ELSE cookbook_docs
    /\ UNCHANGED <<pickle_file, pdf_file, cookbook_file, dictionary_docs, load_error>>
    /\ UNCHANGED <<storeVars, engineVars, agentVars, passVars>>

-----------------------------------------------------------------------------
(* Cell 4: create_vector_store, create_index *)

KnownCollections == {n \in CollectionNames : chroma[n].exists}

\* db.get_or_create_collection(collection_name): the collection of that name,
\* created empty when the database has none
\* a lookup that creates nothing, for comparison
get_collection(db, name) == db

get_or_create_collection(db, name) ==
    IF db[name].exists THEN db
    ELSE [db EXCEPT ![name] = [exists |-> TRUE, entries |-> <<>>]]

\* storage_context = create_vector_store(CHROMA_DB_PATH, name)
CreateVectorStore(name) ==
    /\ state = "Idle"
    /\ chroma' = get_or_create_collection(chroma, name)
    /\ storage_context' = name
    /\ UNCHANGED <<next_id, cookbook_index, dictionary_index>>
    /\ UNCHANGED <<dataVars, engineVars, agentVars, passVars>>

\* the nodes VectorStoreIndex.from_documents builds: one per chunk, each
\* under a node id of its own (a new uuid4 on every call)
NewNodes(src, docs, first) ==
    [i \in 1..Len(docs) |-> [id |-> first + i, src |-> src, text |-> docs[i]]]

\* VectorStoreIndex.from_documents(documents, storage_context): the nodes are
\* added to the collection behind the storage context (ChromaVectorStore.add)
create_index(db, name, src, docs, first) ==
    [db EXCEPT ![name].entries = @ \o NewNodes(src, docs, first)]

\* cookbook_index = create_index(cookbook_docs, storage_context)
CreateCookbookIndex ==
    /\ state = "Idle"
    /\ storage_context # None
    /\ cookbook_docs # <<>>
    /\ next_id + Len(cookbook_docs) <= MaxEntries
    /\ chroma' = create_index(chroma, storage_context, "cookbook", cookbook_docs, next_id)
    /\ next_id' = next_id + Len(cookbook_docs)
    /\ cookbook_index' = storage_context
    /\ UNCHANGED <<storage_context, dictionary_index>>
    /\ UNCHANGED <<dataVars, engineVars, agentVars, passVars>>

\* dictionary_index = create_index(dictionary_docs, storage_context)
CreateDictionaryIndex ==
    /\ state = "Idle"
    /\ storage_context # None
    /\ dictionary_docs # <<>>
    /\ next_id + Len(dictionary_docs) <= MaxEntries
    /\ chroma' = create_index(chroma, storage_context, "dictionary", dictionary_docs, next_id)
    /\ next_id' = next_id + Len(dictionary_docs)
    /\ dictionary_index' = storage_context
    /\ UNCHANGED <<storage_context, cookbook_index>>
    /\ UNCHANGED <<dataVars, engineVars, agentVars, passVars>>

-----------------------------------------------------------------------------
(* Cell 5: create_query_engine *)

\* index.as_query_engine(similarity_top_k=3): an engine over the collection
\* the index reads
create_query_engine(index) == index

\* cookbook_query_engine = create_query_engine(cookbook_index)
CreateCookbookQueryEngine ==
    /\ state = "Idle"
    /\ cookbook_index # None
    /\ cookbook_query_engine' = create_query_engine(cookbook_index)
    /\ UNCHANGED dictionary_query_engine
    /\ UNCHANGED <<dataVars, storeVars, agentVars, passVars>>

\* dictionary_query_engine = create_query_engine(dictionary_index)
CreateDictionaryQueryEngine ==
    /\ state = "Idle"
    /\ dictionary_index # None
    /\ dictionary_query_engine' = create_query_engine(dictionary_index)
    /\ UNCHANGED cookbook_query_engine
    /\ UNCHANGED <<dataVars, storeVars, agentVars, passVars>>

Min(a, b) == IF a <= b THEN a ELSE b

\* what a query of the engine may retrieve from a collection: the
\* similarity_top_k nearest entries, nearest first.  The order among entries
\* of equal similarity is Chroma's, which the notebook does not fix: every
\* order is a possible outcome.
Retrieve(db, name, q) ==
    LET es == db[name].entries
        m == Min(similarity_top_k, Len(es))
        sim(i) == Similarity(q, es[i].text)
        picks == {p \in [1..m -> 1..Len(es)] :
                    /\ \A i, j \in 1..m : i # j => p[i] # p[j]
                    /\ \A i, j \in 1..m : i < j => sim(p[i]) >= sim(p[j])
                    /\ \A i \in 1..m : \A o \in 1..Len(es) :
                          (\A j \in 1..m : p[j] # o) => sim(o) <= sim(p[i])}
    IN {[i \in 1..m |-> es[p[i]]] : p \in picks}

-----------------------------------------------------------------------------
(* Cell 6: create_query_engine_tools, create_agent *)

\* the list create_query_engine_tools returns
create_query_engine_tools(cookbook_engine, dictionary_engine) ==
    << [name |-> "Food_Cookbook", engine |-> cookbook_engine],
       [name |-> "Food_Dictionary", engine |-> dictionary_engine] >>

\* query_engine_tools = create_query_engine_tools(cookbook_query_engine,
\*                                                dictionary_query_engine)
CreateQueryEngineTools ==
    /\ state = "Idle"
    /\ cookbook_query_engine # None
    /\ dictionary_query_engine # None
    /\ query_engine_tools' =
          create_query_engine_tools(cookbook_query_engine, dictionary_query_engine)
    /\ UNCHANGED <<agent_tools, agent, memory>>
    /\ UNCHANGED <<dataVars, storeVars, engineVars, passVars>>

\* the lists create_agent is called with: the notebook's list, no tools at
\* all, and the notebook's list followed by a second "Food_Cookbook"
ToolListInputs(tools) ==
    IF tools = <<>> THEN {} ELSE {tools, <<>>, tools \o <<tools[1]>>}

ToolNames(tools) == {tools[i].name : i \in 1..Len(tools)}

\* a list without its repeated names: the first tool of each name is kept
RECURSIVE UniqueByName(_)
UniqueByName(tools) ==
    IF tools = <<>> THEN <<>>
    ELSE LET init == UniqueByName(SubSeq(tools, 1, Len(tools) - 1))
             last == tools[Len(tools)]
         IN IF last.name \in ToolNames(init) THEN init ELSE Append(init, last)

\* an agent that keeps one tool per name, for comparison
create_agent_unique_names(tools) == [tools |-> UniqueByName(tools), memory |-> <<>>]

\* create_agent(query_engine_tools): FunctionCallingAgentWorker.from_tools
\* takes the list as it is given (neither create_agent nor from_tools looks
\* at the names), and AgentRunner starts with an empty chat memory
create_agent(tools) == [tools |-> tools, memory |-> <<>>]

\* agent = create_agent(tools)
CreateAgent(tools) ==
    /\ state = "Idle"
    /\ LET a == create_agent(tools) IN
         /\ agent_tools' = a.tools
         /\ memory' = a.memory
    /\ agent' = TRUE
    /\ UNCHANGED query_engine_tools
    /\ UNCHANGED <<dataVars, storeVars, engineVars, passVars>>

\* the tool a name of the model's response resolves to: the worker builds
\* a name -> tool dictionary, in which a later tool of the same name wins
ToolByName(tools, nm) ==
    LET is == {i \in 1..Len(tools) : tools[i].name = nm}
    IN tools[CHOOSE i \in is : \A j \in is : j <= i]

-----------------------------------------------------------------------------
(* Cell 7: query_agent, that is agent.chat(query) *)

\* query_agent(agent, query) enters agent.chat: a task is created for the
\* query, whose first step puts the user's message in the task's memory
QueryAgent(q) ==
    /\ state = "Idle"
    /\ agent
    /\ chats < MaxChats
    /\ chats' = chats + 1
    /\ state' = "ToolSelection"
    /\ new_memory' = <<q>>
    /\ n_function_calls' = 0
    /\ chosen' = None
    /\ last_tool' = None
    /\ last_result' = <<>>
    /\ last_error' = FALSE
    /\ response' = "pending"
    /\ UNCHANGED <<dataVars, storeVars, engineVars, agentVars>>

\* the worker's test after the model has responded: the pass is done when
\* the response holds no tool call or the pass has used up its tool calls
\* a worker without a limit on its tool calls, for comparison
is_done_without_limit(tool_call, n) == tool_call = None

\* a worker that goes on to execute after a response without a tool call,
\* for comparison
is_done_at_limit_only(tool_call, n) == n >= max_function_calls

is_done(tool_call, n) == tool_call = None \/ n >= max_function_calls

\* one step of the worker: the model is given the agent's memory, the
\* messages of this pass and the tools, and responds with at most one tool
\* call (allow_parallel_tool_calls=False), naming a tool of the list
SelectTool(nm) ==
    /\ state = "ToolSelection"
    /\ nm \in ToolNames(agent_tools) \cup {None}
    /\ chosen' = nm
    /\ new_memory' = Append(new_memory, "assistant")
    /\ state' = IF is_done(nm, n_function_calls)
                THEN "AnswerComposition" ELSE "ToolExecution"
    /\ last_tool' = None
    /\ last_result' = <<>>
    /\ UNCHANGED <<n_function_calls, last_error, response, chats>>
    /\ UNCHANGED <<dataVars, storeVars, engineVars, agentVars>>

\* the model call of a step raises (Ollama unreachable, timeout): nothing
\* catches it, agent.chat raises to the caller and the task's messages never
\* reach the agent's memory
ModelFails ==
    /\ state = "ToolSelection"
    /\ state' = "Idle"
    /\ response' = "LLMError"
    /\ new_memory' = <<>>
    /\ chosen' = None
    /\ last_tool' = None
    /\ last_result' = <<>>
    /\ last_error' = FALSE
    /\ UNCHANGED <<n_function_calls, chats>>
    /\ UNCHANGED <<dataVars, storeVars, engineVars, agentVars>>

\* llama_index's call_tool around the tool: an exception of the tool is
\* caught and becomes the tool's output, flagged as an error; the pass goes
\* on to its next step either way
\* a tool call that lets the tool's exception end the pass, for comparison
call_tool_raising(ok) ==
    IF ok THEN [state |-> "ToolSelection", response |-> "pending", is_error |-> FALSE]
    ELSE [state |-> "Idle", response |-> "ToolExecutionError", is_error |-> TRUE]

call_tool(ok) ==
    [state |-> "ToolSelection", response |-> "pending", is_error |-> ~ok]

\* the execution of the chosen tool: its query engine retrieves from its
\* collection for the input the model wrote, or raises (embedding, database
\* or synthesis failure); the output is put in the task's memory
ExecuteTool(inp, ok) ==
    /\ state = "ToolExecution"
    /\ LET tool == ToolByName(agent_tools, chosen)
           out == call_tool(ok)
       IN /\ state' = out.state
          /\ response' = out.response
          /\ last_error' = out.is_error
          /\ last_tool' = tool.name
          /\ IF ok
             THEN \E r \in Retrieve(chroma, tool.engine, inp) : last_result' = r
             ELSE last_result' = <<>>
    /\ new_memory' = Append(new_memory, "tool")
    /\ n_function_calls' = n_function_calls + 1
    /\ chosen' = None
    /\ UNCHANGED chats
    /\ UNCHANGED <<dataVars, storeVars, engineVars, agentVars>>

\* AgentRunner.finalize_response: the messages of the task are put in the
\* agent's memory, after those of the earlier chats
\* an agent that forgets the pass, for comparison
finalize_task_dropped(mem, task_memory) == mem

finalize_task(mem, task_memory) == mem \o task_memory

\* the last step's response is the answer agent.chat returns
ComposeAnswer ==
    /\ state = "AnswerComposition"
    /\ memory' = finalize_task(memory, new_memory)
    /\ response' = "answer"
    /\ state' = "Idle"
    /\ new_memory' = <<>>
    /\ n_function_calls' = 0
    /\ chosen' = None
    /\ last_tool' = None
    /\ last_result' = <<>>
    /\ last_error' = FALSE
    /\ UNCHANGED chats
    /\ UNCHANGED <<query_engine_tools, agent_tools, agent>>
    /\ UNCHANGED <<dataVars, storeVars, engineVars>>

-----------------------------------------------------------------------------
(* Cells 3 to 5 on a kernel that has run cells 1 and 2, for either state  *)
(* of the pickle and of the dictionary PDF                                 *)

Init ==
    /\ pickle_file \in BOOLEAN
    /\ pdf_file \in BOOLEAN
    /\ cookbook_file \in BOOLEAN
    /\ cookbook_docs = <<>>
    /\ dictionary_docs = <<>>
    /\ load_error = None
    /\ chroma = [n \in CollectionNames |-> [exists |-> FALSE, entries |-> <<>>]]
    /\ next_id = 0
    /\ storage_context = None
    /\ cookbook_index = None
    /\ dictionary_index = None
    /\ cookbook_query_engine = None
    /\ dictionary_query_engine = None
    /\ query_engine_tools = <<>>
    /\ agent_tools = <<>>
    /\ agent = FALSE
    /\ memory = <<>>
    /\ state = "Idle"
    /\ new_memory = <<>>
    /\ n_function_calls = 0
    /\ chosen = None
    /\ last_tool = None
    /\ last_result = <<>>
    /\ last_error = FALSE
    /\ response = None
    /\ chats = 0

NextIngest ==
    \/ LoadCookbook
    \/ \E use_pickle \in BOOLEAN, has_key \in BOOLEAN :
          LoadDictionary(use_pickle, has_key)
    \/ \E name \in CollectionNames : CreateVectorStore(name)
    \/ CreateCookbookIndex
    \/ CreateDictionaryIndex
    \/ CreateCookbookQueryEngine
    \/ CreateDictionaryQueryEngine

SpecIngest == Init /\ [][NextIngest]_vars

-----------------------------------------------------------------------------
(* Cells 4 to 7 on a kernel on which cell 3 has loaded both texts (the     *)
(* pickle is there, as the notebook's use_pickle=True needs)               *)

InitLoaded ==
    /\ pickle_file = TRUE
    /\ pdf_file = TRUE
    /\ cookbook_file = TRUE
    /\ cookbook_docs = CookbookChunks
    /\ dictionary_docs = DictionaryChunks
    /\ load_error = None
    /\ chroma = [n \in CollectionNames |-> [exists |-> FALSE, entries |-> <<>>]]
    /\ next_id = 0
    /\ storage_context = None
    /\ cookbook_index = None
    /\ dictionary_index = None
    /\ cookbook_query_engine = None
    /\ dictionary_query_engine = None
    /\ query_engine_tools = <<>>
    /\ agent_tools = <<>>
    /\ agent = FALSE
    /\ memory = <<>>
    /\ state = "Idle"
    /\ new_memory = <<>>
    /\ n_function_calls = 0
    /\ chosen = None
    /\ last_tool = None
    /\ last_result = <<>>
    /\ last_error = FALSE
    /\ response = None
    /\ chats = 0

Next ==
    \/ \E name \in CollectionNames : CreateVectorStore(name)
    \/ CreateCookbookIndex
    \/ CreateDictionaryIndex
    \/ CreateCookbookQueryEngine
    \/ CreateDictionaryQueryEngine
    \/ CreateQueryEngineTools
    \/ \E tools \in ToolListInputs(query_engine_tools) : CreateAgent(tools)
    \/ \E q \in Queries : QueryAgent(q)
    \/ \E nm \in ToolNames(agent_tools) \cup {None} : SelectTool(nm)
    \/ ModelFails
    \/ \E inp \in Queries, ok \in BOOLEAN : ExecuteTool(inp, ok)
    \/ ComposeAnswer

Spec == InitLoaded /\ [][Next]_vars

-----------------------------------------------------------------------------
(* The claims *)

\* the source text a tool is described as answering from
ToolSource(nm) ==
    IF nm = "Food_Cookbook" THEN "cookbook"
    ELSE IF nm = "Food_Dictionary" THEN "dictionary" ELSE None

\* C1: a retrieval through the tool of one source text only ever returns
\* chunks ingested from that source text: nothing the cookbook tool retrieves
\* is a dictionary chunk, nothing the dictionary tool retrieves is a cookbook
\* chunk.
C1_RetrievalStaysInCollection ==
    \A i \in 1..Len(last_result) : last_result[i].src = ToolSource(last_tool)

\* C2, as claimed: the agent keeps no cross-turn state, so the memory the
\* language model is given in a pass holds nothing of an earlier pass.
C2_NoCrossTurnState ==
    state = "ToolSelection" => memory = <<>>

\* C2, as the code has it: a pass that returns an answer leaves all its
\* messages in the agent's memory, the next pass starts with that memory,
\* a pass that raises leaves the memory as it was, and only create_agent
\* starts from an empty memory.
C2_MemoryCarriesOver ==
    [][ /\ (state = "AnswerComposition" /\ state' = "Idle")
            => (memory' = memory \o new_memory /\ Len(memory') > Len(memory))
        /\ (state = "Idle" /\ state' = "ToolSelection") => memory' = memory
        /\ (state = "ToolSelection" /\ state' = "Idle") => memory' = memory
        /\ (memory # <<>> /\ memory' = <<>>) => (state = "Idle" /\ state' = "Idle")
      ]_vars

\* C2 witness: a pass is under way whose memory holds an earlier pass
C2_LaterPassReadsEarlier ==
    state = "ToolSelection" /\ Len(memory) >= 2 /\ chats = 2

\* C3, as claimed: looking up a collection name that was never created
\* fails, and creates nothing: no lookup changes the set of known
\* collections.
C3_LookupLeavesCollections ==
    [][\A n \in CollectionNames :
          CreateVectorStore(n) => KnownCollections' = KnownCollections]_vars

\* C3, as the code has it: the lookup of a collection name never fails; the
\* name is known once it has been looked up, the lookup having created the
\* collection, empty, when the database had none of that name.
C3_LookupCreates ==
    /\ storage_context # None => storage_context \in KnownCollections
    /\ \A n \in CollectionNames : chroma[n].entries # <<>> => n \in KnownCollections

\* C3 witness: a name was looked up and its collection is there, empty
C3_CreatedByLookup ==
    /\ storage_context # None
    /\ storage_context \in KnownCollections
    /\ chroma[storage_context].entries = <<>>

\* C4, as claimed: a miss of the pickle is never an error: a load fails
\* for a missing file only when the source document itself is missing.
C4_CacheMissNotFatal ==
    load_error = "FileNotFoundError" => ~pdf_file

\* C4, as the code has it: with use_pickle=True a miss of the pickle is
\* fatal: the call raises FileNotFoundError, loads nothing and writes no
\* pickle, whether or not the source document is there; and a hit returns
\* the pickled documents without a look at the source document.
C4_PickleMissRaises ==
    [][\A has_key \in BOOLEAN :
          LoadDictionary(TRUE, has_key) =>
             IF pickle_file
             THEN load_error' = None /\ dictionary_docs' = DictionaryChunks
             ELSE /\ load_error' = "FileNotFoundError"
                  /\ dictionary_docs' = dictionary_docs
                  /\ pickle_file' = pickle_file
      ]_vars

\* C4 witness: the load has failed for the missing pickle with the source
\* document in place
C4_MissWithSourcePresent ==
    load_error = "FileNotFoundError" /\ ~pickle_file /\ pdf_file

\* C5, as claimed: a query pass executes at most one tool.
C5_AtMostOneToolPerPass ==
    n_function_calls <= 1

\* C5, as the code has it: a step of a pass executes at most one tool, and
\* a pass runs step after step for as long as the model calls a tool, up to
\* max_function_calls executions.
C5_AtMostOneToolPerStep ==
    /\ n_function_calls <= max_function_calls
    /\ state = "ToolExecution" => n_function_calls < max_function_calls
    /\ Len(new_memory) <= 2 + 2 * n_function_calls

\* C5 witness: a pass that has executed max_function_calls tools
C5_PassWithManyTools ==
    state = "AnswerComposition" /\ n_function_calls = max_function_calls

\* C6, as claimed: a failed retrieval ends the turn with ToolExecutionError
\* at the caller: no further step, no answer composed.
C6_FailureEndsTurn ==
    last_error => (state = "Idle" /\ response = "ToolExecutionError")

\* C6, as the code has it: a failed retrieval is caught and becomes the
\* tool's output; the pass goes on to its next step as after a retrieval
\* that succeeded, and no ToolExecutionError reaches the caller.
C6_FailureIsHandedToModel ==
    /\ response # "ToolExecutionError"
    /\ last_error =>
          /\ state \in {"ToolSelection", "ToolExecution", "AnswerComposition"}
          /\ response = "pending"
          /\ n_function_calls >= 1

\* C6 witness: an answer is being composed right after a failed retrieval
C6_AnswerAfterFailure ==
    state = "AnswerComposition" /\ last_error /\ n_function_calls = 1

\* C7: when the model's response names no tool, and so whenever the agent
\* has no tools, the pass goes from ToolSelection straight to
\* AnswerComposition and from there returns an answer; ToolExecution is
\* entered only for a tool of the agent's list, and no ToolExecutionError is
\* raised.
C7_NoToolGoesToAnswer ==
    /\ [][(state = "ToolSelection" /\ state' # "Idle" /\ chosen' = None)
             => state' = "AnswerComposition"]_vars
    /\ [][state = "AnswerComposition"
             => (state' = "Idle" /\ response' = "answer")]_vars
    /\ [](state = "ToolExecution" => chosen \in ToolNames(agent_tools))
    /\ [](response # "ToolExecutionError")

\* C7 witness: an agent without tools composing its answer, no tool executed
C7_AnswerWithoutTools ==
    /\ agent /\ agent_tools = <<>>
    /\ state = "AnswerComposition" /\ n_function_calls = 0 /\ chosen = None

\* C8, as claimed: a tool whose name is already registered is refused, so
\* the names of the agent's tools are pairwise distinct in every state.
C8_NamesDistinct ==
    \A i, j \in 1..Len(agent_tools) :
       i # j => agent_tools[i].name # agent_tools[j].name

\* C8, as the code has it: create_query_engine_tools builds Food_Cookbook
\* then Food_Dictionary, and create_agent takes the list it is given as it
\* is, a repeated name included: nothing is refused, nothing is dropped.
C8_ListTakenAsGiven ==
    /\ [](query_engine_tools # <<>> =>
            /\ Len(query_engine_tools) = 2
            /\ query_engine_tools[1].name = "Food_Cookbook"
            /\ query_engine_tools[2].name = "Food_Dictionary")
    /\ [][\A tools \in ToolListInputs(query_engine_tools) :
            CreateAgent(tools) => (agent' /\ agent_tools' = tools)]_vars

\* C8 witness: an agent holding two tools named Food_Cookbook
C8_RepeatedNameAccepted ==
    /\ agent /\ Len(agent_tools) = 3
    /\ agent_tools[1].name = agent_tools[3].name

\* C10 (the order and number of the chunks a search returns) is decided
\* inside Chroma's index; Retrieve leaves the order among equal scores open,
\* so the model states no formula for it.

\* C9: ingesting into a collection the documents it already holds (an
\* upsert of chunks already there) does not increase the number of its
\* entries.
C9_ReingestKeepsSize ==
    [][ /\ (CreateCookbookIndex
             /\ \E i \in 1..Len(chroma[storage_context].entries) :
                   chroma[storage_context].entries[i].src = "cookbook")
           => Len(chroma'[storage_context].entries)
                 = Len(chroma[storage_context].entries)
        /\ (CreateDictionaryIndex
             /\ \E i \in 1..Len(chroma[storage_context].entries) :
                   chroma[storage_context].entries[i].src = "dictionary")
           => Len(chroma'[storage_context].entries)
                 = Len(chroma[storage_context].entries)
      ]_vars

=============================================================================
